---------------------------- MODULE Spec2Model ----------------------------
(***************************************************************************)
(* A model of spotlight.py: the Crawler (request, spider, format_links,    *)
(* get_links) and the Digger (extract_text, lemmatize, extract_topic),     *)
(* and the KeyboardInterrupt handler of the main block.                    *)
(*                                                                         *)
(* A URL is a sequence of one-character strings.  A text is a sequence of  *)
(* symbols, a symbol being either a single space " " or a whole word.      *)
(* A page is a sequence of tags (a, p, div), a div holding child tags.     *)
(***************************************************************************)
EXTENDS Integers, Sequences, FiniteSets, TLC

(***************************************************************************)
(* Bounds of the model.                                                    *)
(***************************************************************************)
MaxCount == 2

(***************************************************************************)
(* Characters and the two regular expressions of the program.             *)
(***************************************************************************)
WordChars == {"s", "e", "c", "w", "o", "a", "h", "x"}

IsWord(ch) == ch \in WordChars

\* The end of the maximal run of \w characters of u that starts at i.
WordRunEnd(u, i) ==
    CHOOSE k \in i..Len(u) :
        /\ \A m \in i..k : IsWord(u[m])
        /\ (k = Len(u) \/ ~IsWord(u[k + 1]))

SetMin(S) == CHOOSE m \in S : \A n \in S : m <= n

SetMax(S) == CHOOSE m \in S : \A n \in S : n <= m

\* re.search(r'\w+\.\w+', url): the positions where a match can start.
SearchStarts(u) ==
    {i \in 1..Len(u) :
        /\ IsWord(u[i])
        /\ LET j == WordRunEnd(u, i)
           IN  /\ j + 2 <= Len(u)
               /\ u[j + 1] = "."
               /\ IsWord(u[j + 2])}

\* re.search(r'\w+\.\w+', url).group(0): the leftmost match, both runs greedy.
SearchDomain(u) ==
    LET i == SetMin(SearchStarts(u))
        j == WordRunEnd(u, i)
    IN  SubSeq(u, i, WordRunEnd(u, j + 2))

\* re.match(r'.+\.\w+', url): the dots the greedy .+ can stop in front of.
MatchDots(u) ==
    {d \in 2..Len(u) : u[d] = "." /\ d + 1 <= Len(u) /\ IsWord(u[d + 1])}

\* re.match(r'.+\.\w+', url).group(0): .+ is greedy, so the last such dot.
MatchBase(u) ==
    LET d == SetMax(MatchDots(u))
    IN  SubSeq(u, 1, WordRunEnd(u, d + 1))

\* str.startswith
StartsWith(s, p) == Len(p) <= Len(s) /\ SubSeq(s, 1, Len(p)) = p

\* The substring test "p in s".
Contains(s, p) ==
    \E i \in 0..(Len(s) - Len(p)) : SubSeq(s, i + 1, i + Len(p)) = p

\* "x in list"
InList(x, list) == \E i \in 1..Len(list) : list[i] = x

(***************************************************************************)
(* Tags and the queries BeautifulSoup answers about a page.                *)
(***************************************************************************)
\* What find() returns when nothing is found.
None == [tag |-> "None", has_class |-> FALSE, class |-> <<>>,
         has_href |-> FALSE, href |-> <<>>, text |-> <<>>, kids |-> <<>>]

RECURSIVE Flatten(_)
\* The tags of a page in document order, a div before its children.
Flatten(soup) ==
    IF soup = <<>> THEN <<>>
    ELSE <<Head(soup)>> \o Head(soup).kids \o Flatten(Tail(soup))

\* soup.find_all('a'), soup.find_all('p')
FindAllTag(soup, name) ==
    SelectSeq(Flatten(soup), LAMBDA t : t.tag = name)

\* soup.find_all(class_=cl): every tag whose class attribute lists cl.
FindAllClass(soup, cl) ==
    SelectSeq(Flatten(soup), LAMBDA t : t.has_class /\ InList(cl, t.class))

\* tag.find('a'), tag.find('p'): the first such descendant, or None.
Find(t, name) ==
    LET found == SelectSeq(t.kids, LAMBDA k : k.tag = name)
    IN  IF found = <<>> THEN None ELSE Head(found)

\* The tags find_all(class_=cl) yields for each cl of a list in turn.
RECURSIVE FindAllClasses(_, _)
FindAllClasses(soup, classes) ==
    IF classes = <<>> THEN <<>>
    ELSE FindAllClass(soup, Head(classes)) \o FindAllClasses(soup, Tail(classes))

(***************************************************************************)
(* Crawler: the class tables, format_links and get_links.                  *)
(***************************************************************************)
url_classes ==
    <<"css-826iu8", "css-1gd0wp5", "js-headline-text",
      "pagination__action--static", "css-cywksh", "comments">>

embedded_url_classes == <<"view-more-links", "teaser-wrapper", "pager-next">>

\* format_links: a tag that is None or has no href raises AttributeError,
\* which returns url_base.
format_links(url_base, link) ==
    IF link.tag = "None" \/ ~link.has_href THEN url_base
    ELSE IF link.href # <<>> /\ Head(link.href) = "/" THEN url_base \o link.href
    ELSE link.href

\* AnchorAppends without the startswith test.
AnchorAppends_NoDomainCheck(link, url_base, sloppy) ==
    LET final_link == format_links(url_base, link)
        matches == IF link.has_class
                   THEN SelectSeq(url_classes, LAMBDA cl : InList(cl, link.class))
                   ELSE <<>>
    IN  IF sloppy THEN <<final_link>>
        ELSE [i \in 1..Len(matches) |-> final_link]

\* AnchorAppends with a KeyError handler that appends the link.
AnchorAppends_KeyErrorAppends(link, url_base, sloppy) ==
    LET final_link == format_links(url_base, link)
        matches == IF link.has_class
                   THEN SelectSeq(url_classes, LAMBDA cl : InList(cl, link.class))
                   ELSE url_classes
    IN  IF ~StartsWith(final_link, url_base) THEN <<>>
        ELSE IF sloppy THEN <<final_link>>
        ELSE [i \in 1..Len(matches) |-> final_link]

\* What one pass of "for link in chefsoup" appends to to_visit for one anchor.
AnchorAppends(link, url_base, sloppy) ==
    LET final_link == format_links(url_base, link)
        matches == IF link.has_class
                   THEN SelectSeq(url_classes, LAMBDA cl : InList(cl, link.class))
                   ELSE <<>>
    IN  IF ~StartsWith(final_link, url_base) THEN <<>>
        ELSE IF sloppy THEN <<final_link>>
        ELSE [i \in 1..Len(matches) |-> final_link]

RECURSIVE AnchorLoop(_, _, _)
\* The first loop of get_links: everything it appends, in order.
AnchorLoop(chefsoup, url_base, sloppy) ==
    IF chefsoup = <<>> THEN <<>>
    ELSE AnchorAppends(Head(chefsoup), url_base, sloppy)
         \o AnchorLoop(Tail(chefsoup), url_base, sloppy)

\* What the embedded loop appends for one tag bearing an embedded class.
EmbeddedAppends(t, url_base) ==
    LET final_link == format_links(url_base, Find(t, "a"))
    IN  IF StartsWith(final_link, url_base) THEN <<final_link>> ELSE <<>>

RECURSIVE EmbeddedMap(_, _)
EmbeddedMap(embedded, url_base) ==
    IF embedded = <<>> THEN <<>>
    ELSE EmbeddedAppends(Head(embedded), url_base)
         \o EmbeddedMap(Tail(embedded), url_base)

\* The second loop of get_links: everything it appends, in order.
EmbeddedLoop(soup, url_base, sloppy) ==
    IF sloppy THEN <<>>
    ELSE EmbeddedMap(FindAllClasses(soup, embedded_url_classes), url_base)

(***************************************************************************)
(* Digger.extract_text                                                     *)
(***************************************************************************)
css_classes == <<"css-1dznooa", "dcr-xry7m2", "dcr-1of5t9g">>

embedded_classes == <<"md", "field-item">>

\* ParagraphAppends without the test on the text collected so far.
ParagraphAppends_NoSeenTest(paragraph, extracted_text, sloppy) ==
    LET matches == IF paragraph.has_class
                   THEN SelectSeq(css_classes,
                                  LAMBDA cl : InList(cl, paragraph.class))
                   ELSE <<>>
    IN  IF sloppy THEN <<paragraph.text>>
        ELSE [i \in 1..Len(matches) |-> paragraph.text]

\* ParagraphAppends with the class test left out.
ParagraphAppends_IgnoreClass(paragraph, extracted_text, sloppy) ==
    IF InList(paragraph.text, extracted_text) THEN <<>>
    ELSE <<paragraph.text>>

\* What the paragraph loop appends for one paragraph: in strict mode once for
\* every class of css_classes the paragraph carries.
ParagraphAppends(paragraph, extracted_text, sloppy) ==
    LET matches == IF paragraph.has_class
                   THEN SelectSeq(css_classes,
                                  LAMBDA cl : InList(cl, paragraph.class))
                   ELSE <<>>
    IN  IF InList(paragraph.text, extracted_text) THEN <<>>
        ELSE IF sloppy THEN <<paragraph.text>>
        ELSE [i \in 1..Len(matches) |-> paragraph.text]

RECURSIVE ParagraphLoop(_, _, _)
ParagraphLoop(peasoup, extracted_text, sloppy) ==
    IF peasoup = <<>> THEN extracted_text
    ELSE ParagraphLoop(Tail(peasoup),
                       extracted_text
                       \o ParagraphAppends(Head(peasoup), extracted_text, sloppy),
                       sloppy)

RECURSIVE EmbeddedTextLoop(_, _)
\* find('p') returning None raises AttributeError and the tag is passed over.
EmbeddedTextLoop(embedded, extracted_text) ==
    IF embedded = <<>> THEN extracted_text
    ELSE LET small_peasoup == Find(Head(embedded), "p")
         IN  EmbeddedTextLoop(
                 Tail(embedded),
                 IF small_peasoup.tag = "None"
                    \/ InList(small_peasoup.text, extracted_text)
                 THEN extracted_text
                 ELSE Append(extracted_text, small_peasoup.text))

\* The list extracted_text as it stands at the return of extract_text.
ExtractedText(soup, peasoup, sloppy) ==
    LET direct == ParagraphLoop(peasoup, <<>>, sloppy)
    IN  IF sloppy THEN direct
        ELSE EmbeddedTextLoop(FindAllClasses(soup, embedded_classes), direct)

RECURSIVE Join(_)
\* ' '.join(list)
Join(list) ==
    IF list = <<>> THEN <<>>
    ELSE IF Len(list) = 1 THEN list[1]
    ELSE list[1] \o <<" ">> \o Join(Tail(list))

extract_text(soup, peasoup, sloppy) == Join(ExtractedText(soup, peasoup, sloppy))

(***************************************************************************)
(* Digger.lemmatize.  The spaCy pipeline is outside the program: here it   *)
(* yields one token per word of the article, with a fixed lemma and part   *)
(* of speech for each word.                                                *)
(***************************************************************************)
closed_class_words ==
    <<"PUNCT", "SYM", "ADP", "AUX", "CCONJ", "DET", "NUM", "PART", "PRON",
      "SCONJ">>

FreqLimit == 150

Token(word) ==
    CASE word = "the"   -> [lemma_ |-> "the",   pos_ |-> "DET"]
      [] word = "with"  -> [lemma_ |-> "with",  pos_ |-> "ADP"]
      [] word = "fox"   -> [lemma_ |-> "fox",   pos_ |-> "NOUN"]
      [] word = "jumps" -> [lemma_ |-> "jump",  pos_ |-> "VERB"]
      [] word = "100%"  -> [lemma_ |-> "100%",  pos_ |-> "NOUN"]
      [] OTHER          -> [lemma_ |-> word,    pos_ |-> "ADJ"]

\* nlp(article): the tokens of the article, white space dropped.
nlp(article) ==
    LET words == SelectSeq(article, LAMBDA sym : sym # " ")
    IN  [i \in 1..Len(words) |-> Token(words[i])]

\* The word column of frequency-en.csv and of frequency-sv.tsv, most
\* frequent word first.
FrequencyFile(lang) ==
    [i \in 1..(FreqLimit + 2) |->
        IF lang = "en"
        THEN CASE i = 1             -> "the"
               [] i = FreqLimit     -> "house"
               [] i = FreqLimit + 1 -> "quick"
               [] i = FreqLimit + 2 -> "jump"
               [] OTHER             -> "that"
        ELSE CASE i = 1             -> "och"
               [] i = FreqLimit     -> "brown"
               [] OTHER             -> "att"]

\* The loop over the lines of the frequency file: line i is read with
\* frequency_count = i - 1 and appended while frequency_count <= 150; the
\* loop breaks once frequency_count > 150.
ReadFrequency(frequency) ==
    LET taken == {i \in 1..Len(frequency) : i - 1 <= FreqLimit}
    IN  [i \in 1..Cardinality(taken) |-> frequency[i]]

\* '%' in lemma, '"' in lemma
HasBadChar(lemma) == lemma \in {"100%", "\"quote\""}

RECURSIVE TokenLoop(_, _, _)
\* The loop over the tokens of the document.
TokenLoop(doc, vocab, frequency_list) ==
    IF doc = <<>> THEN vocab
    ELSE LET token == Head(doc)
             lemma == token.lemma_
             keep == /\ ~InList(lemma, vocab)
                     /\ ~InList(token.pos_, closed_class_words)
                     /\ Len(lemma) > 3
                     /\ ~InList(lemma, frequency_list)
                     /\ ~HasBadChar(lemma)
         IN  TokenLoop(Tail(doc),
                       IF keep THEN Append(vocab, lemma) ELSE vocab,
                       frequency_list)

\* Languages with a third code let through.
Languages_Any == {"en", "sv", "xx"}

Languages == {"en", "sv"}

\* lemmatize that keeps a lemma it has already kept.
lemmatize_KeepRepeats(article, lang) ==
    LET frequency_list == ReadFrequency(FrequencyFile(lang))
        kept == SelectSeq(nlp(article),
                          LAMBDA token :
                              /\ ~InList(token.pos_, closed_class_words)
                              /\ Len(token.lemma_) > 3
                              /\ ~InList(token.lemma_, frequency_list)
                              /\ ~HasBadChar(token.lemma_))
    IN  [i \in 1..Len(kept) |-> kept[i].lemma_]

\* lemmatize for a supported language.
lemmatize(article, lang) ==
    TokenLoop(nlp(article), <<>>, ReadFrequency(FrequencyFile(lang)))

(***************************************************************************)
(* Digger.extract_topic: the document-term array handed to the topic model.*)
(***************************************************************************)
\* article.split()
Split(article) == SelectSeq(article, LAMBDA sym : sym # " ")

\* WordCount that only notes whether the word occurs.
WordCount_Presence(article, word) ==
    IF \E k \in 1..Len(Split(article)) : Split(article)[k] = word THEN 1 ELSE 0

\* word_count for one article and one word.
WordCount(article, word) ==
    Cardinality({k \in 1..Len(Split(article)) : Split(article)[k] = word})

\* topic_array: one row per article, one column per word of uniq_words.
TopicArray(articles, uniq_words) ==
    [i \in 1..Len(articles) |->
        [j \in 1..Len(uniq_words) |-> WordCount(articles[i], uniq_words[j])]]

\* tuple(self.vocab_set): the words of the set in some order.
Tuples(S) ==
    {t \in [1..Cardinality(S) -> S] :
        \A i, j \in 1..Cardinality(S) : t[i] = t[j] => i = j}

n_top == 8

RECURSIVE SortsOf(_, _)
\* The orders that list the indices of rest by ascending weight; indices of
\* equal weight come in any order.
SortsOf(weights, rest) ==
    IF rest = {} THEN {<<>>}
    ELSE LET lows == {i \in rest : \A j \in rest : weights[i] <= weights[j]}
         IN  UNION {{<<i>> \o t : t \in SortsOf(weights, rest \ {i})} : i \in lows}

\* The results np.argsort(topic_dist) can have.
ArgSort(topic_dist) == SortsOf(topic_dist, 1..Len(topic_dist))

\* TopWords with the slice taken from the front.
TopWords_Ascending(uniq_words, order) ==
    LET n == Len(order)
        taken == IF n < n_top - 1 THEN n ELSE n_top - 1
    IN  [i \in 1..taken |-> uniq_words[order[i]]]

\* np.array(uniq_words)[order][:-n_top:-1]: from the last word backwards,
\* stopping before the n_top-th from the end.
TopWords(uniq_words, order) ==
    LET n == Len(order)
        sorted == [i \in 1..n |-> uniq_words[order[i]]]
        taken == IF n < n_top - 1 THEN n ELSE n_top - 1
    IN  [i \in 1..taken |-> sorted[n + 1 - i]]

(***************************************************************************)
(* The pages a fetch can return.                                           *)
(***************************************************************************)
A(href, class) ==
    [tag |-> "a", has_class |-> TRUE, class |-> class,
     has_href |-> TRUE, href |-> href, text |-> <<>>, kids |-> <<>>]

P(text, class) ==
    [tag |-> "p", has_class |-> TRUE, class |-> class,
     has_href |-> FALSE, href |-> <<>>, text |-> text, kids |-> <<>>]

Div(class, kids) ==
    [tag |-> "div", has_class |-> TRUE, class |-> class,
     has_href |-> FALSE, href |-> <<>>, text |-> <<>>, kids |-> kids]

\* The same tag without its class attribute, without its href attribute.
NoClass(t) == [t EXCEPT !.has_class = FALSE, !.class = <<>>]

NoHref(t) == [t EXCEPT !.has_href = FALSE, !.href = <<>>]

HrefA == <<"/", "a">>

HrefAH == <<"/", "a", ".", "h">>

HrefAbs == <<"s", ":", "/", "/", "e", ".", "c", "/", "x">>

HrefOut == <<"s", ":", "/", "/", "o", ".", "c", "/", "x">>

TextParts ==
    { <<>>,
      << NoClass(P(<<"quick">>, <<>>)),
         Div(<<"md">>, << NoClass(P(<<"brown">>, <<>>)) >>) >>,
      << P(<<"brown">>, <<"dcr-xry7m2", "dcr-1of5t9g">>),
         P(<<"the">>, <<"css-1dznooa">>) >>,
      << Div(<<"field-item">>, << P(<<"the">>, <<"css-1dznooa">>) >>),
         Div(<<"md">>, <<>>) >>,
      << NoClass(P(<<"jumps", " ", "fox">>, <<>>)) >> }

LinkParts ==
    { <<>>,
      << A(HrefA, <<"js-headline-text">>), A(HrefOut, <<"js-headline-text">>),
         NoClass(A(HrefAH, <<>>)) >>,
      << NoHref(A(<<>>, <<"comments", "css-cywksh">>)), A(HrefAH, <<"nav">>) >>,
      << Div(<<"teaser-wrapper">>, << NoClass(A(HrefA, <<>>)) >>),
         Div(<<"pager-next">>, <<>>),
         Div(<<"view-more-links">>, << NoClass(A(HrefOut, <<>>)) >>) >>,
      << A(HrefAbs, <<"css-826iu8">>) >> }

Pages == {t \o l : t \in TextParts, l \in LinkParts}

\* BeautifulSoup('<!-- -->'): a page without tags.
EmptyPage == <<>>

StartUrls ==
    { <<"s", ":", "/", "/", "e", ".", "c">>,
      <<"s", ":", "/", "/", "w", ".", "e", ".", "c">>,
      <<"s">> }

Counts == (-1)..MaxCount

\* What requests.get does: a response with status 200, a response with
\* another status, or one of its exceptions.
Exceptions == {"ConnectionError", "InvalidSchema", "ChunkedEncodingError"}

Outcomes == {"200", "404"} \cup Exceptions

(***************************************************************************)
(* The state of a run.                                                     *)
(***************************************************************************)
VARIABLES
    url, count, lang, sloppy,     \* the arguments of spider
    url_base,                     \* spider's url_base
    to_visit, visited, vis_count, vocab_set, article_list,
    idx,                          \* position of "for link in self.to_visit"
    pc,                           \* position of the run
    soups, text, lemma,           \* locals of the loop body
    extracter,                    \* whether the local extracter is bound
    result,                       \* the local result
    buffer, file,                 \* the open file's buffer, the output file
    console,                      \* the kinds of message printed
    fetched,                      \* the URLs passed to requests.get
    error,                        \* the exception that ended the run
    call, ret                     \* a single call of one function, its return

args == <<url, count, lang, sloppy>>

crawler == <<to_visit, visited, vis_count, vocab_set, article_list>>

locals == <<soups, text, lemma, extracter, result>>

calls == <<call, ret>>

run == <<args, url_base, crawler, idx, pc, locals, buffer, file, console,
         fetched, error>>

vars == <<run, calls>>

NoCall == [fn |-> "none"]

NoRet == [done |-> FALSE, value |-> <<>>]

NoSoups == [soup |-> <<>>, url_base |-> <<>>, peasoup |-> <<>>, chefsoup |-> <<>>]

NoResult == [head |-> "", uniq_words |-> <<>>, topic_array |-> <<>>]

Init ==
    /\ url \in StartUrls
    /\ count \in Counts
    /\ lang \in Languages \cup {"xx"}
    /\ sloppy \in [text : BOOLEAN, link : BOOLEAN]
    /\ url_base = <<>>
    /\ to_visit = <<>>
    /\ visited = {}
    /\ vis_count = 0
    /\ vocab_set = {}
    /\ article_list = <<>>
    /\ idx = 1
    /\ pc = "start"
    /\ soups = NoSoups
    /\ text = <<>>
    /\ lemma = <<>>
    /\ extracter = FALSE
    /\ result = NoResult
    /\ buffer = <<>>
    /\ file = <<>>
    /\ console = {}
    /\ fetched = <<>>
    /\ error = ""
    /\ call = NoCall
    /\ ret = NoRet

\* An exception other than KeyboardInterrupt leaves spider and ends the run.
Raise(exception) ==
    /\ pc' = "crashed"
    /\ error' = exception

(***************************************************************************)
(* Crawler.spider, one action per position of the run.                     *)
(***************************************************************************)
\* link taken from the end of the list.
link_Newest == to_visit[Len(to_visit)]

\* The link the loop is at.
link == to_visit[idx]

\* ShouldVisit without the test on visited.
ShouldVisit_NoVisitedCheck(l, seen, n, budget) == n <= budget

\* The test of the loop body: is the link fetched?
ShouldVisit(l, seen, n, budget) == l \notin seen /\ n <= budget

\* ' '.join(lemma) for a list of words.
JoinWords(words) == Join([i \in 1..Len(words) |-> <<words[i]>>])

Range(seq) == {seq[i] : i \in 1..Len(seq)}

\* spider up to the loop: url_base, and the start URL is put on to_visit.
Start ==
    /\ pc = "start"
    /\ IF SearchStarts(url) = {}
       THEN /\ Raise("AttributeError")
            /\ UNCHANGED <<url_base, to_visit>>
       ELSE /\ url_base' = SearchDomain(url)
            /\ error' = error
            /\ IF ~InList(url, to_visit)
               THEN to_visit' = Append(to_visit, url) /\ pc' = "loop"
               ELSE to_visit' = to_visit /\ pc' = "done"
    /\ UNCHANGED <<calls, args, visited, vis_count, vocab_set, article_list, idx,
                   locals, buffer, file, console, fetched>>

\* The else branch of the loop body: the link is passed over.
Skip ==
    /\ pc = "loop"
    /\ idx <= Len(to_visit)
    /\ ~ShouldVisit(link, visited, vis_count, count)
    /\ idx' = idx + 1
    /\ UNCHANGED <<calls, args, url_base, crawler, pc, locals, buffer, file, console,
                   fetched, error>>

\* The soups request returns for a page.
Soups(page, base) ==
    [soup |-> page, url_base |-> base,
     peasoup |-> FindAllTag(page, "p"), chefsoup |-> FindAllTag(page, "a")]

\* request(link), and the Digger is made.  requests.get is called outside
\* the try statement, so its exceptions leave request and spider.
Request ==
    /\ pc = "loop"
    /\ idx <= Len(to_visit)
    /\ ShouldVisit(link, visited, vis_count, count)
    /\ IF MatchDots(link) = {}
       THEN /\ Raise("AttributeError")
            /\ UNCHANGED <<soups, extracter, console, fetched>>
       ELSE /\ fetched' = Append(fetched, link)
            /\ \E outcome \in Outcomes :
                  CASE outcome \in Exceptions ->
                         /\ Raise(outcome)
                         /\ UNCHANGED <<soups, extracter, console>>
                    [] outcome = "200" ->
                         /\ \E page \in Pages :
                               soups' = Soups(page, MatchBase(link))
                         /\ extracter' = TRUE
                         /\ pc' = "extract"
                         /\ UNCHANGED <<console, error>>
                    [] outcome = "404" ->
                         /\ soups' = Soups(EmptyPage, MatchBase(link))
                         /\ console' = console \cup {"404"}
                         /\ extracter' = TRUE
                         /\ pc' = "extract"
                         /\ error' = error
    /\ UNCHANGED <<calls, args, url_base, crawler, idx, text, lemma, result, buffer,
                   file>>

ExtractText ==
    /\ pc = "extract"
    /\ text' = extract_text(soups.soup, soups.peasoup, sloppy.text)
    /\ pc' = "lemmatize"
    /\ UNCHANGED <<calls, args, url_base, crawler, idx, soups, lemma, extracter,
                   result, buffer, file, console, fetched, error>>

\* lemmatize raises NameError for a language that is neither en nor sv.
Lemmatize ==
    /\ pc = "lemmatize"
    /\ IF lang \in Languages
       THEN /\ lemma' = lemmatize(text, lang)
            /\ pc' = "fold"
            /\ error' = error
       ELSE /\ Raise("NameError")
            /\ lemma' = lemma
    /\ UNCHANGED <<calls, args, url_base, crawler, idx, soups, text, extracter,
                   result, buffer, file, console, fetched>>

\* The words go to vocab_set and the article to article_list.
Fold ==
    /\ pc = "fold"
    /\ IF lemma # <<>>
       THEN /\ vocab_set' = vocab_set \cup Range(lemma)
            /\ article_list' = Append(article_list, JoinWords(lemma))
       ELSE UNCHANGED <<vocab_set, article_list>>
    /\ pc' = "links"
    /\ UNCHANGED <<calls, args, url_base, to_visit, visited, vis_count, idx, locals,
                   buffer, file, console, fetched, error>>

\* get_links, the loop over the anchors.
GetLinksAnchors ==
    /\ pc = "links"
    /\ to_visit' = to_visit \o AnchorLoop(soups.chefsoup, soups.url_base,
                                         sloppy.link)
    /\ pc' = "embedded"
    /\ UNCHANGED <<calls, args, url_base, visited, vis_count, vocab_set,
                   article_list, idx, locals, buffer, file, console, fetched,
                   error>>

\* get_links, the loop over the embedded classes.
GetLinksEmbedded ==
    /\ pc = "embedded"
    /\ to_visit' = to_visit \o EmbeddedLoop(soups.soup, soups.url_base,
                                           sloppy.link)
    /\ pc' = "mark"
    /\ UNCHANGED <<calls, args, url_base, visited, vis_count, vocab_set,
                   article_list, idx, locals, buffer, file, console, fetched,
                   error>>

\* self.visited.add(link)
MarkVisited ==
    /\ pc = "mark"
    /\ visited' = visited \cup {link}
    /\ pc' = "count"
    /\ UNCHANGED <<calls, args, url_base, to_visit, vis_count, vocab_set,
                   article_list, idx, locals, buffer, file, console, fetched,
                   error>>

\* self.vis_count += 1, and the loop moves on.
CountVisited ==
    /\ pc = "count"
    /\ vis_count' = vis_count + 1
    /\ idx' = idx + 1
    /\ pc' = "loop"
    /\ UNCHANGED <<calls, args, url_base, to_visit, visited, vocab_set,
                   article_list, locals, buffer, file, console, fetched,
                   error>>

\* The loop has run through to_visit.
LoopEnd ==
    /\ pc = "loop"
    /\ idx > Len(to_visit)
    /\ pc' = "report"
    /\ UNCHANGED <<calls, args, url_base, crawler, idx, locals, buffer, file,
                   console, fetched, error>>

\* The exception the call of extract_topic raises, "" for none: an unbound
\* extracter in spider, and in extract_topic an unbound topic_array at
\* model.fit(topic_array) when there is no article, raise UnboundLocalError.
TopicError(bound, articles) ==
    IF ~bound \/ articles = <<>> THEN "UnboundLocalError" ELSE ""

\* An except clause for another exception.
Caught_KeyError(exception) == exception = "KeyError"

\* The except clause of spider.
Caught(exception) == exception = "UnboundLocalError"

\* extract_topic, called in the try statement of spider; a caught exception
\* prints the hint.
ExtractTopic ==
    /\ pc = "report"
    /\ IF TopicError(extracter, article_list) # ""
       THEN /\ IF Caught(TopicError(extracter, article_list))
               THEN /\ console' = console \cup {"hint"}
                    /\ pc' = "done"
                    /\ error' = error
               ELSE /\ Raise(TopicError(extracter, article_list))
                    /\ console' = console
            /\ result' = result
       ELSE /\ error' = error
            /\ \E uniq_words \in Tuples(vocab_set) :
                  result' = [head |-> "TOPICS:",
                             uniq_words |-> uniq_words,
                             topic_array |-> TopicArray(article_list, uniq_words)]
            /\ pc' = "open"
            /\ console' = console
    /\ UNCHANGED <<calls, args, url_base, crawler, idx, soups, text, lemma,
                   extracter, buffer, file, fetched>>

\* open(f'{url_base}.txt', 'a')
OpenFile ==
    /\ pc = "open"
    /\ buffer' = <<>>
    /\ pc' = "write"
    /\ UNCHANGED <<calls, args, url_base, crawler, idx, locals, file, console,
                   fetched, error>>

\* A block written before the topics are there.
Block_NoResult(n, u, r) == [pages |-> n, url |-> u, result |-> NoResult]

\* The block spider writes.
Block(n, u, r) == [pages |-> n, url |-> u, result |-> r]

\* filename.write(...): one write of the whole block.
WriteFile ==
    /\ pc = "write"
    /\ buffer' = Append(buffer, Block(Cardinality(visited), url, result))
    /\ pc' = "close"
    /\ UNCHANGED <<calls, args, url_base, crawler, idx, locals, file, console,
                   fetched, error>>

\* Leaving the with statement closes the file: the buffer reaches the file.
CloseFile ==
    /\ pc = "close"
    /\ file' = file \o buffer
    /\ buffer' = <<>>
    /\ pc' = "print"
    /\ UNCHANGED <<calls, args, url_base, crawler, idx, locals, console, fetched,
                   error>>

PrintResult ==
    /\ pc = "print"
    /\ console' = console \cup {"report"}
    /\ pc' = "done"
    /\ UNCHANGED <<calls, args, url_base, crawler, idx, locals, buffer, file,
                   fetched, error>>

\* KeyboardInterrupt, caught by the main block.  Raised inside the with
\* statement it still closes the file.
Interrupt ==
    /\ pc \notin {"done", "crashed", "interrupted"}
    /\ pc' = "interrupted"
    /\ console' = console \cup {"User interrupt"}
    /\ file' = IF pc \in {"write", "close"} THEN file \o buffer ELSE file
    /\ buffer' = <<>>
    /\ UNCHANGED <<calls, args, url_base, crawler, idx, locals, fetched, error>>

Next ==
    \/ Start
    \/ Skip
    \/ Request
    \/ ExtractText
    \/ Lemmatize
    \/ Fold
    \/ GetLinksAnchors
    \/ GetLinksEmbedded
    \/ MarkVisited
    \/ CountVisited
    \/ LoopEnd
    \/ ExtractTopic
    \/ OpenFile
    \/ WriteFile
    \/ CloseFile
    \/ PrintResult
    \/ Interrupt

Spec == Init /\ [][Next]_vars

(***************************************************************************)
(* Single calls of the functions of the program, on arguments of their    *)
(* own: lemmatize, the words of a topic line, the document-term array,     *)
(* format_links, extract_text, and spider as a function of its arguments   *)
(* and of the pages the site serves.                                       *)
(***************************************************************************)
MaxTokens == 2

\* The words an article is made of.
AllWords ==
    {"the", "with", "fox", "jumps", "100%", "\"quote\"", "brown", "quick",
     "house", "jump"}

\* The articles of at most n words, single spaces between the words.
Articles(n) ==
    {JoinWords(ws) : ws \in UNION {[1..k -> AllWords] : k \in 0..n}}

LemmatizeCalls ==
    [fn : {"lemmatize"}, article : Articles(MaxTokens), lang : Languages]

MaxVocab == 8

TermNames ==
    <<"t1", "t2", "t3", "t4", "t5", "t6", "t7", "t8", "t9", "t10", "t11", "t12">>

\* The weights of one topic over n words, with and without equal weights.
TopicDists(n) ==
    {[i \in 1..n |-> (a * i + b) % m] : a \in 1..3, b \in 0..2, m \in {5, 11}}

TopicWordsCalls ==
    UNION {[fn : {"topic_words"}, uniq_words : {SubSeq(TermNames, 1, n)},
            topic_dist : TopicDists(n)] : n \in 7..MaxVocab}

MaxArticles == 2

\* Articles as spider stores them, and with a word repeated.
ArticleTexts ==
    {<<"brown">>,
     <<"brown", " ", "jump">>,
     <<"brown", " ", "brown", " ", "jump">>,
     <<"quick", " ", "house", " ", "quick">>}

TopicArrayCalls ==
    [fn : {"topic_array"},
     articles : UNION {[1..k -> ArticleTexts] : k \in 1..MaxArticles},
     uniq_words : UNION {Tuples(S) : S \in SUBSET {"brown", "jump", "quick"}}]

\* A scheme-relative href.
HrefRel == <<"/", "/", "o", ".", "c", "/", "x">>

\* The candidates format_links is given: no tag, an anchor without href, and
\* anchors with an empty, a relative, a scheme-relative and an absolute href.
Candidates ==
    {None, NoHref(A(<<>>, <<>>))}
        \cup {A(href, <<>>) : href \in {<<>>, HrefA, HrefAH, HrefRel, HrefAbs, HrefOut}}

FormatLinksCalls ==
    [fn : {"format_links"},
     url_base : {<<"s", ":", "/", "/", "e", ".", "c">>,
                 <<"s", ":", "/", "/", "w", ".", "e", ".", "c">>},
     link : Candidates]

MaxTags == 3

\* The tags a page is made of: paragraphs with and without a class of
\* css_classes, two of them with the same text, and a tag of an embedded
\* class that holds a paragraph.
Tags ==
    { NoClass(P(<<"quick">>, <<>>)),
      P(<<"quick">>, <<"css-1dznooa">>),
      P(<<"brown", " ", "fox">>, <<"dcr-xry7m2", "dcr-1of5t9g">>),
      Div(<<"md">>, << NoClass(P(<<"jumps">>, <<>>)) >>) }

ExtractTextCalls ==
    [fn : {"extract_text"},
     soup : UNION {[1..k -> Tags] : k \in 0..MaxTags},
     sloppy : BOOLEAN]

WebSize == 2

\* Pages of a site: a text that only relaxed text keeps or a text that
\* strict text keeps too, with links of each kind.
WebPages ==
    {t \o l : t \in { << NoClass(P(<<"jumps", " ", "fox">>, <<>>)) >>,
                      << P(<<"brown">>, <<"dcr-xry7m2">>) >> },
              l \in { << A(HrefA, <<"js-headline-text">>), NoClass(A(HrefAH, <<>>)) >>,
                      << Div(<<"teaser-wrapper">>, << NoClass(A(HrefA, <<>>)) >>),
                         A(HrefAH, <<"nav">>) >>,
                      << A(HrefAbs, <<"css-826iu8">>) >> }}

\* A site: the page it serves for a URL, chosen by the length of the URL
\* (the URLs of the model all have an odd length).
Webs == [0..(WebSize - 1) -> WebPages]

PageOf(web, l) == web[(Len(l) \div 2) % WebSize]

\* The objects of a Crawler that has not run.
NewCrawler ==
    [to_visit |-> <<>>, visited |-> {}, vis_count |-> 0, vocab_set |-> {},
     article_list |-> <<>>, fetched |-> <<>>]

\* LoopBody with get_links inside the test on lemma.
LoopBody_LinksIfText(crawl, l, page, language, flags) ==
    LET s == Soups(page, MatchBase(l))
        words == lemmatize(extract_text(s.soup, s.peasoup, flags.text), language)
        links == AnchorLoop(s.chefsoup, s.url_base, flags.link)
                     \o EmbeddedLoop(s.soup, s.url_base, flags.link)
    IN  [to_visit |-> IF words # <<>> THEN crawl.to_visit \o links
                      ELSE crawl.to_visit,
         visited |-> crawl.visited \cup {l},
         vis_count |-> crawl.vis_count + 1,
         vocab_set |-> IF words # <<>> THEN crawl.vocab_set \cup Range(words)
                       ELSE crawl.vocab_set,
         article_list |-> IF words # <<>>
                          THEN Append(crawl.article_list, JoinWords(words))
                          ELSE crawl.article_list,
         fetched |-> Append(crawl.fetched, l)]

\* The body of the loop of spider for a link that is fetched and answered
\* with the page.
LoopBody(crawl, l, page, language, flags) ==
    LET s == Soups(page, MatchBase(l))
        words == lemmatize(extract_text(s.soup, s.peasoup, flags.text), language)
        links == AnchorLoop(s.chefsoup, s.url_base, flags.link)
                     \o EmbeddedLoop(s.soup, s.url_base, flags.link)
    IN  [to_visit |-> crawl.to_visit \o links,
         visited |-> crawl.visited \cup {l},
         vis_count |-> crawl.vis_count + 1,
         vocab_set |-> IF words # <<>> THEN crawl.vocab_set \cup Range(words)
                       ELSE crawl.vocab_set,
         article_list |-> IF words # <<>>
                          THEN Append(crawl.article_list, JoinWords(words))
                          ELSE crawl.article_list,
         fetched |-> Append(crawl.fetched, l)]

RECURSIVE SpiderLoop(_, _, _, _, _, _)
\* for link in self.to_visit, from position i on.
SpiderLoop(crawl, i, budget, language, flags, web) ==
    IF i > Len(crawl.to_visit) THEN crawl
    ELSE LET l == crawl.to_visit[i]
         IN  IF ShouldVisit(l, crawl.visited, crawl.vis_count, budget)
             THEN SpiderLoop(LoopBody(crawl, l, PageOf(web, l), language, flags),
                             i + 1, budget, language, flags, web)
             ELSE SpiderLoop(crawl, i + 1, budget, language, flags, web)

\* The Crawler at the end of the loop of spider(url, count, lang, sloppy) on
\* a site that answers every request.
Spider(start, budget, language, flags, web) ==
    SpiderLoop([NewCrawler EXCEPT !.to_visit = <<start>>], 1, budget, language,
               flags, web)

SpiderCalls ==
    [fn : {"spider"},
     url : {u \in StartUrls : SearchStarts(u) # {}},
     count : Counts,
     lang : Languages,
     sloppy : [text : BOOLEAN, link : BOOLEAN],
     web : Webs]

\* No run of spider: the variables of the run stay as they are.
NoRun ==
    /\ url = <<>>
    /\ count = 0
    /\ lang = "en"
    /\ sloppy = [text |-> FALSE, link |-> FALSE]
    /\ url_base = <<>>
    /\ to_visit = <<>>
    /\ visited = {}
    /\ vis_count = 0
    /\ vocab_set = {}
    /\ article_list = <<>>
    /\ idx = 1
    /\ pc = "none"
    /\ soups = NoSoups
    /\ text = <<>>
    /\ lemma = <<>>
    /\ extracter = FALSE
    /\ result = NoResult
    /\ buffer = <<>>
    /\ file = <<>>
    /\ console = {}
    /\ fetched = <<>>
    /\ error = ""

InitCalls ==
    /\ NoRun
    /\ ret = NoRet
    /\ \/ call \in LemmatizeCalls
       \/ call \in TopicWordsCalls
       \/ call \in TopicArrayCalls
       \/ call \in FormatLinksCalls
       \/ call \in ExtractTextCalls
       \/ call \in SpiderCalls

Return(value) ==
    /\ ~ret.done
    /\ ret' = [done |-> TRUE, value |-> value]
    /\ UNCHANGED <<call, run>>

CallLemmatize ==
    /\ call.fn = "lemmatize"
    /\ Return(lemmatize(call.article, call.lang))

\* The words of one line of the report, for one result of argsort.
CallTopicWords ==
    /\ call.fn = "topic_words"
    /\ ~ret.done
    /\ \E order \in ArgSort(call.topic_dist) :
          Return(TopWords(call.uniq_words, order))

\* The array extract_topic builds before it fits the topic model.
CallTopicArray ==
    /\ call.fn = "topic_array"
    /\ Return(TopicArray(call.articles, call.uniq_words))

CallFormatLinks ==
    /\ call.fn = "format_links"
    /\ Return(format_links(call.url_base, call.link))

\* extract_text as spider calls it, with peasoup = soup.find_all('p').
CallExtractText ==
    /\ call.fn = "extract_text"
    /\ Return(extract_text(call.soup, FindAllTag(call.soup, "p"), call.sloppy))

CallSpider ==
    /\ call.fn = "spider"
    /\ Return(Spider(call.url, call.count, call.lang, call.sloppy, call.web))

NextCalls ==
    \/ CallLemmatize
    \/ CallTopicWords
    \/ CallTopicArray
    \/ CallFormatLinks
    \/ CallExtractText
    \/ CallSpider

SpecCalls == InitCalls /\ [][NextCalls]_vars

(***************************************************************************)
(* Properties.                                                             *)
(***************************************************************************)
NoDuplicates(seq) == \A i, j \in 1..Len(seq) : seq[i] = seq[j] => i = j

\* C1: for a budget count >= 0, vis_count never exceeds count.
C1_BudgetRespected == count >= 0 => vis_count <= count

\* C2: every URL on to_visit, whatever page and depth it was found at and
\* whatever the relaxation mode, contains the base domain spider derived
\* from the start URL.
C2_DomainContained ==
    \A i \in 1..Len(to_visit) : Contains(to_visit[i], url_base)

\* C2 witness: links have been enqueued from a page below the start URL whose
\* own base differs from the start URL's, and the page held an outside link.
C2_Witness ==
    /\ pc = "mark"
    /\ idx > 1
    /\ soups.url_base # MatchBase(url)
    /\ \E k \in 1..Len(soups.chefsoup) : soups.chefsoup[k].href = HrefOut
    /\ Len(to_visit) > idx
    /\ StartsWith(to_visit[Len(to_visit)], soups.url_base)

\* C3: no URL is fetched twice, and between two pages the size of visited
\* equals vis_count.
C3_VisitedCount ==
    /\ NoDuplicates(fetched)
    /\ pc = "loop" => Cardinality(visited) = vis_count

\* C3 witness: with budget left, the loop stands behind an entry of to_visit
\* that repeats an earlier, visited one.
C3_Witness ==
    /\ pc = "loop"
    /\ idx > 2
    /\ vis_count <= count
    /\ to_visit[idx - 1] \in visited
    /\ \E j \in 1..(idx - 2) : to_visit[j] = to_visit[idx - 1]
    /\ Cardinality(visited) = vis_count

\* C4: an exception of the fetch never ends the run.
C4_FetchFailureSoft == error \notin Exceptions

C6_EmptyCorpusHint ==
    (article_list = <<>> /\ to_visit # <<>> /\ idx > Len(to_visit)) =>
        /\ pc \in {"loop", "report", "done", "interrupted"}
        /\ error = ""
        /\ result = NoResult
        /\ buffer = <<>>
        /\ file = <<>>
        /\ pc = "done" => "hint" \in console

\* C6 witness: pages were visited, none gave an article, the hint is printed.
C6_Witness ==
    /\ pc = "done"
    /\ vis_count > 0
    /\ article_list = <<>>
    /\ "hint" \in console
    /\ file = <<>>

AllParagraphsUnclassed ==
    \A k \in 1..Len(soups.peasoup) : ~soups.peasoup[k].has_class

\* The tags bearing an embedded text class whose first paragraph has text.
TextContainers ==
    {k \in 1..Len(FindAllClasses(soups.soup, embedded_classes)) :
        LET small == Find(FindAllClasses(soups.soup, embedded_classes)[k], "p")
        IN  small.tag = "p" /\ small.text # <<>>}

\* C7 as stated: in strict text mode a page whose paragraphs all lack a class
\* attribute gives the empty text.
C7_StrictEmpty ==
    (pc = "lemmatize" /\ ~sloppy.text /\ AllParagraphsUnclassed) => text = <<>>

\* C7 amended: in strict text mode a page whose paragraphs all lack a class
\* attribute gives the empty text exactly when no tag bearing an embedded
\* text class has a first paragraph with text.
C7_StrictEmptyUnlessEmbedded ==
    (pc = "lemmatize" /\ ~sloppy.text /\ AllParagraphsUnclassed) =>
        (text = <<>> <=> TextContainers = {})

\* C7 witness: strict mode, a page with paragraphs, none with a class, and
\* the text extracted is empty.
C7_Witness ==
    /\ pc = "lemmatize"
    /\ ~sloppy.text
    /\ soups.peasoup # <<>>
    /\ AllParagraphsUnclassed
    /\ text = <<>>

\* C8: the snippets extract_text has collected for the page hold no snippet
\* twice.
C8_NoRepeatedSnippet ==
    pc = "lemmatize" =>
        NoDuplicates(ExtractedText(soups.soup, soups.peasoup, sloppy.text))

\* An anchor whose class attribute holds a configured link class.
HasLinkClass(anchor) ==
    anchor.has_class /\ \E c \in 1..Len(url_classes) : InList(url_classes[c], anchor.class)

\* C9: in strict link mode every link the anchor loop appends is the link of
\* an anchor of the page that has a configured link class, and it contains
\* the base domain.
C9_StrictAnchors ==
    [][(pc = "links" /\ pc' = "embedded" /\ ~sloppy.link) =>
          \A i \in (Len(to_visit) + 1)..Len(to_visit') :
              /\ Contains(to_visit'[i], url_base)
              /\ \E k \in 1..Len(soups.chefsoup) :
                    /\ HasLinkClass(soups.chefsoup[k])
                    /\ format_links(soups.url_base, soups.chefsoup[k]) = to_visit'[i]]_vars

\* C9 witness: strict link mode, the anchor loop has run over a page with an
\* anchor with a link class inside the domain, one with a link class outside
\* it and one without a class attribute, and has appended one link.
C9_Witness ==
    /\ pc = "embedded"
    /\ ~sloppy.link
    /\ \E k \in 1..Len(soups.chefsoup) :
          HasLinkClass(soups.chefsoup[k]) /\ soups.chefsoup[k].href = HrefOut
    /\ \E k \in 1..Len(soups.chefsoup) :
          ~soups.chefsoup[k].has_class /\ soups.chefsoup[k].href = HrefAH
    /\ to_visit = <<url, soups.url_base \o HrefA>>

\* C10: the file only ever holds complete blocks (the number of visited
\* pages, the start URL, the topic report), and a run interrupted before
\* the topics were extracted leaves the file as it was.
C10_NoPartialReport ==
    /\ \A i \in 1..Len(file) :
          /\ file[i].pages = Cardinality(visited)
          /\ file[i].url = url
          /\ file[i].result.head = "TOPICS:"
          /\ file[i].result = result
    /\ (pc = "interrupted" /\ result = NoResult) => file = <<>>
    /\ Len(file) <= 1

\* C10 witness: the interrupt came inside the with statement after the write,
\* and the file holds the block.
C10_Witness ==
    /\ pc = "interrupted"
    /\ "report" \notin console
    /\ Len(file) = 1

\* The first 150 words of the language's frequency list.
Top150(language) == {FrequencyFile(language)[i] : i \in 1..FreqLimit}

\* The tests a lemma passes to be kept, apart from the one on repeats.
Qualifies(token, language) ==
    /\ ~InList(token.pos_, closed_class_words)
    /\ Len(token.lemma_) > 3
    /\ token.lemma_ \notin Top150(language)
    /\ ~HasBadChar(token.lemma_)

\* C11: lemmatize returns each lemma once, and the lemma of a token is in
\* the output exactly when its part of speech is not closed-class, it is
\* longer than 3, it is not among the first 150 words of the frequency list
\* and it holds neither '%' nor '"'; so the 151st word is kept.
C11_RetainedIff ==
    (call.fn = "lemmatize" /\ ret.done) =>
        /\ NoDuplicates(ret.value)
        /\ \A k \in 1..Len(nlp(call.article)) :
              InList(nlp(call.article)[k].lemma_, ret.value)
                  <=> Qualifies(nlp(call.article)[k], call.lang)

\* The weight of a word of the call's vocabulary.
WeightOf(word) ==
    call.topic_dist[CHOOSE k \in 1..Len(call.uniq_words) : call.uniq_words[k] = word]

\* C12: over a vocabulary of at least 7 words the line lists 7 different
\* words, by descending weight, and no word left out weighs more than a
\* listed one.
C12_TopSeven ==
    (call.fn = "topic_words" /\ ret.done /\ Len(call.uniq_words) >= 7) =>
        /\ Len(ret.value) = 7
        /\ NoDuplicates(ret.value)
        /\ \A i \in 1..Len(ret.value) : InList(ret.value[i], call.uniq_words)
        /\ \A i, j \in 1..Len(ret.value) :
              i < j => WeightOf(ret.value[i]) >= WeightOf(ret.value[j])
        /\ \A k \in 1..Len(call.uniq_words) :
              ~InList(call.uniq_words[k], ret.value) =>
                  \A i \in 1..Len(ret.value) :
                      call.topic_dist[k] <= WeightOf(ret.value[i])

\* C12 witness: 8 words, two of them of the same weight at the cut, and the
\* line has been made.
C12_Witness ==
    /\ call.fn = "topic_words"
    /\ ret.done
    /\ Len(call.uniq_words) = 8
    /\ Len(ret.value) = 7
    /\ \E k \in 1..8 :
          /\ ~InList(call.uniq_words[k], ret.value)
          /\ call.topic_dist[k] = WeightOf(ret.value[7])

RECURSIVE SumSeq(_)
SumSeq(row) == IF row = <<>> THEN 0 ELSE Head(row) + SumSeq(Tail(row))

\* The tokens of a document that are literally the given word.
Occurrences(document, word) ==
    SelectSeq(Split(document), LAMBDA token : token = word)

\* C13: the array has one row per article, in order, and one cell per word of
\* the vocabulary tuple, in order; a cell is the number of tokens of the
\* article equal to the word, and a row sums to the number of the article's
\* tokens that are words of the vocabulary.
C13_CellsCountTokens ==
    (call.fn = "topic_array" /\ ret.done) =>
        /\ Len(ret.value) = Len(call.articles)
        /\ \A i \in 1..Len(call.articles) :
              /\ Len(ret.value[i]) = Len(call.uniq_words)
              /\ \A j \in 1..Len(call.uniq_words) :
                    ret.value[i][j] =
                        Len(Occurrences(call.articles[i], call.uniq_words[j]))
              /\ SumSeq(ret.value[i]) =
                    Len(SelectSeq(Split(call.articles[i]),
                                  LAMBDA token : InList(token, call.uniq_words)))

\* C13 witness: two articles, one with a word twice, and a cell of 2.
C13_Witness ==
    /\ call.fn = "topic_array"
    /\ ret.done
    /\ Len(call.articles) = 2
    /\ Len(call.uniq_words) = 3
    /\ call.articles[1] # call.articles[2]
    /\ ret.value[2][1] = 2
    /\ SumSeq(ret.value[2]) = 3

\* A tag whose first contained anchor exists and has an href.
HasAnchorHref(t) == Find(t, "a").tag # "None" /\ Find(t, "a").has_href

\* C14: in strict link mode the embedded loop appends, for the tags bearing
\* an embedded class in the order it meets them, the link of the first
\* anchor of each tag that has one with an href inside the domain, and
\* nothing for a tag without an anchor or whose anchor has no href.
C14_EmbeddedFirstAnchor ==
    [][(pc = "embedded" /\ pc' = "mark" /\ ~sloppy.link) =>
          LET containers == FindAllClasses(soups.soup, embedded_url_classes)
              qualifying ==
                  SelectSeq(containers,
                            LAMBDA t : /\ HasAnchorHref(t)
                                       /\ StartsWith(format_links(soups.url_base, Find(t, "a")),
                                                     soups.url_base))
          IN  SubSeq(to_visit', Len(to_visit) + 1, Len(to_visit')) =
                  [i \in 1..Len(qualifying) |->
                      format_links(soups.url_base, Find(qualifying[i], "a"))]]_vars

\* C15: format_links returns the base for no anchor or no href, the base
\* followed by the href for an href that begins with one "/", and any other
\* href, a scheme-relative "//host/x" among them, as it stands.
C15_FormatLinks ==
    (call.fn = "format_links" /\ ret.done) =>
        LET href == call.link.href
            absent == call.link.tag = "None" \/ ~call.link.has_href
            scheme_relative == StartsWith(href, <<"/", "/">>)
        IN  ret.value =
                IF absent THEN call.url_base
                ELSE IF StartsWith(href, <<"/">>) /\ ~scheme_relative
                     THEN call.url_base \o href
                ELSE href

RECURSIVE FirstOccurrences(_)
\* The sequence without the repetitions of an earlier element.
FirstOccurrences(seq) ==
    IF seq = <<>> THEN <<>>
    ELSE LET front == FirstOccurrences(SubSeq(seq, 1, Len(seq) - 1))
             last == seq[Len(seq)]
         IN  IF InList(last, front) THEN front ELSE Append(front, last)

\* C16: the pages fetched so far are the first links of to_visit, each once,
\* in the order they were first appended, and the visited pages are among
\* them; article_list only changes when the tokens of the page being visited
\* are folded in, by one entry at the end, and it does so exactly when the
\* page's token list is not empty.
C16_FifoVisits ==
    [][/\ fetched' = SubSeq(FirstOccurrences(to_visit'), 1, Len(fetched'))
       /\ visited' \subseteq Range(fetched')
       /\ (pc' = "report" /\ error' = "") => visited' = Range(fetched')
       /\ article_list' # article_list =>
              /\ pc = "fold"
              /\ link = fetched[Len(fetched)]
              /\ article_list' = Append(article_list, JoinWords(lemma))
       /\ (pc = "fold" /\ pc' = "links") =>
              (article_list' # article_list <=> lemma # <<>>)]_vars

\* C16 witness: the loop has ended after two pages, a link that was appended
\* again was skipped, and one of the two pages had no tokens.
C16_Witness ==
    /\ pc = "report"
    /\ Len(fetched) = 2
    /\ visited = Range(fetched)
    /\ Len(to_visit) > Cardinality(Range(to_visit))
    /\ Len(article_list) = 1

\* C17: once a budget of at least one page is reached, that is once
\* vis_count pages have been visited and vis_count >= count, no step fetches
\* a page or appends a link to to_visit.
C17_NoFetchAfterBudget ==
    [][(count >= 1 /\ vis_count >= count) =>
          /\ fetched' = fetched
          /\ to_visit' = to_visit]_vars

\* The texts of the paragraph tags of the call's page, in document order.
ParagraphTexts ==
    LET paragraphs == FindAllTag(call.soup, "p")
    IN  [i \in 1..Len(paragraphs) |-> paragraphs[i].text]

ArticleTokens == UNION {Range(Split(article_list[i])) : i \in 1..Len(article_list)}

\* C19: once the loop of the crawl has ended, every token of every article
\* is in vocab_set and every word of vocab_set is a token of some article;
\* and once the document-term array is built, each of its cells is 0 or 1
\* and each row sums to the number of tokens of its article.
C19_VocabularyOfArticles ==
    /\ pc \in {"report", "open", "write", "close", "print", "done"} =>
          vocab_set = ArticleTokens
    /\ result.head = "TOPICS:" =>
          /\ Range(result.uniq_words) = vocab_set
          /\ \A i \in 1..Len(article_list) :
                /\ \A j \in 1..Len(result.uniq_words) :
                      result.topic_array[i][j] \in {0, 1}
                /\ SumSeq(result.topic_array[i]) = Len(Split(article_list[i]))

\* C19 witness: the array is built for two different articles over a
\* vocabulary of at least two words, and it has a cell of 0 and a cell of 1.
C19_Witness ==
    /\ pc = "open"
    /\ result.head = "TOPICS:"
    /\ Len(article_list) = 2
    /\ article_list[1] # article_list[2]
    /\ Cardinality(vocab_set) >= 2
    /\ \E j \in 1..Len(result.uniq_words) : result.topic_array[1][j] = 0
    /\ \E j \in 1..Len(result.uniq_words) : result.topic_array[1][j] = 1

\* What a crawl fetched, in order, and what it leaves in to_visit and
\* visited.
Visits(crawl) ==
    [fetched |-> crawl.fetched, to_visit |-> crawl.to_visit,
     visited |-> crawl.visited]

\* C20: a crawl with any supported language and either setting of the text
\* flag, on the same site with the same start URL, budget and link flag,
\* fetches the same URLs in the same order and leaves the same to_visit and
\* visited.
C20_VisitsIgnoreTextAndLanguage ==
    (call.fn = "spider" /\ ret.done) =>
        \A language \in Languages, relaxed \in BOOLEAN :
            Visits(Spider(call.url, call.count, language,
                          [call.sloppy EXCEPT !.text = relaxed], call.web))
                = Visits(ret.value)

\* C20 witness: a crawl of three pages has ended, and the crawl with the
\* other text flag and the crawl with the other language each store other
\* articles than it did.
C20_Witness ==
    /\ call.fn = "spider"
    /\ ret.done
    /\ Len(ret.value.fetched) = 3
    /\ Len(ret.value.to_visit) > 3
    /\ Spider(call.url, call.count, call.lang,
              [call.sloppy EXCEPT !.text = ~call.sloppy.text], call.web).article_list
           # ret.value.article_list
    /\ \E language \in Languages :
          Spider(call.url, call.count, language, call.sloppy, call.web).article_list
              # ret.value.article_list

=============================================================================
